---------------------------- MODULE Spec2Model ----------------------------
(***************************************************************************)
(* bear_rs (src/src/main.rs): the driver spawns a build command, reads its *)
(* standard output line by line, classifies every line with                *)
(* is_compile_command, and appends one JSON object per accepted line to    *)
(* compile_commands.json, between "[\n" and "\n]\n".                       *)
(*                                                                         *)
(* Text is modelled as sequences of one-character strings, so substring    *)
(* tests, the two regular expressions and the JSON escaping are computed   *)
(* character by character.                                                 *)
(***************************************************************************)
EXTENDS Integers, Sequences, FiniteSets

VARIABLES
    pc,           \* position of main: create, spawn, read_out, read_err, close, done (Ok), failed (Err)
    file,         \* compile_commands.json: the buffers of the write_all calls that succeeded, in order
    first_entry,  \* main's `first_entry` flag
    stdout,       \* lines in the child's stdout pipe, not yet read
    stderr,       \* lines in the child's stderr pipe, not yet read
    child,        \* child process: none, running, wout (in a write to stdout), werr, exited
    pending,      \* the line the child is writing
    nOut,         \* lines the child has started to write to stdout
    nErr,         \* lines the child has started to write to stderr
    seen,         \* history: the stdout lines handed to process_line, in order
    outcome,      \* console: <<>> or <<r>>, r what process_line printed for the last line
    pushFailed    \* history: a write_all of a separator or a record returned Err

vars == <<pc, file, first_entry, stdout, stderr, child, pending, nOut, nErr,
          seen, outcome, pushFailed>>

(***************************************************************************)
(* Bounds                                                                  *)
(***************************************************************************)
\* stdout lines the child writes in one run
MaxOut == 2
\* lines a pipe holds before a write to it blocks
PipeCap == 1
\* stderr lines the child writes in one run: one more than a pipe holds
MaxErr == PipeCap + 1
\* fragments concatenated into one classified line
MaxFrags == 3

(***************************************************************************)
(* Characters                                                              *)
(***************************************************************************)
TAB == "\t"
QUOTE == "\""
BSLASH == "\\"
NL == "\n"

\* regex \s and \S, over the characters that occur in the model
IsWhite(c) == c \in {" ", TAB}

\* regex \w, over the characters that occur in the model
IsWord(c) == c \in {"a", "b", "c", "e", "f", "g", "i", "k", "l", "m", "n", "o",
                    "p", "r", "s", "t", "u", "x", "C", "F", "M"}

\* str::contains
Contains(s, sub) ==
    \E i \in 1..Len(s) : i + Len(sub) - 1 <= Len(s) /\ SubSeq(s, i, i + Len(sub) - 1) = sub

\* sub occurs in s starting at position i
At(s, i, sub) ==
    i >= 1 /\ i + Len(sub) - 1 <= Len(s) /\ SubSeq(s, i, i + Len(sub) - 1) = sub

(***************************************************************************)
(* compiler_regex: (/[\w/]+)?/(cc|c\+\+|gcc|g\+\+|clang|clang\+\+)\s       *)
(***************************************************************************)
CompilerNames ==
    << <<"c","c">>, <<"c","+","+">>, <<"g","c","c">>, <<"g","+","+">>,
       <<"c","l","a","n","g">>, <<"c","l","a","n","g","+","+">> >>

\* the optional group (/[\w/]+)? matches line[i..j-1]: empty, or "/" and one or more of [\w/]
PathPrefix(line, i, j) ==
    \/ j = i
    \/ /\ j >= i + 2
       /\ line[i] = "/"
       /\ \A k \in (i + 1)..(j - 1) : IsWord(line[k]) \/ line[k] = "/"

\* the pattern without its mandatory "/": one alternative, then \s, from position j
NameSpaceNoSlash(line, j) ==
    \E n \in 1..Len(CompilerNames) :
        LET b == CompilerNames[n] IN
        /\ At(line, j, b)
        /\ j + Len(b) <= Len(line)
        /\ IsWhite(line[j + Len(b)])

\* the mandatory "/", one alternative of the group, then \s, from position j
SlashNameSpace(line, j) ==
    /\ j <= Len(line)
    /\ line[j] = "/"
    /\ \E n \in 1..Len(CompilerNames) :
          LET b == CompilerNames[n] IN
          /\ At(line, j + 1, b)
          /\ j + Len(b) + 1 <= Len(line)
          /\ IsWhite(line[j + Len(b) + 1])

\* Regex::is_match: some match starts somewhere in the line
compiler_regex_is_match(line) ==
    \E i \in 1..Len(line) : \E j \in i..Len(line) :
        PathPrefix(line, i, j) /\ SlashNameSpace(line, j)

(***************************************************************************)
(* is_compile_command                                                      *)
(***************************************************************************)
FLAG_C == <<" ", "-", "c", " ">>
FLAG_O == <<" ", "-", "o", " ">>
EXT_C == <<".", "c">>
EXT_CPP == <<".", "c", "p", "p">>
EXT_CC == <<".", "c", "c">>
EXT_CXX == <<".", "c", "x", "x">>

contains_source_file(line) ==
    \/ Contains(line, EXT_C)
    \/ Contains(line, EXT_CPP)
    \/ Contains(line, EXT_CC)
    \/ Contains(line, EXT_CXX)

\* is_compile_command without the test for " -c "
is_compile_command_NoCompileFlag(line) ==
    /\ compiler_regex_is_match(line)
    /\ Contains(line, FLAG_O)
    /\ contains_source_file(line)

is_compile_command(line) ==
    /\ compiler_regex_is_match(line)
    /\ Contains(line, FLAG_C)
    /\ Contains(line, FLAG_O)
    /\ contains_source_file(line)

(***************************************************************************)
(* source_file_regex: (\S+\.(c|cpp|cc|cxx))\s?  and capture group 1 of     *)
(* the leftmost match.  \S+ is greedy; the alternatives are tried in the   *)
(* order written; \s? may match nothing.                                   *)
(***************************************************************************)
SourceAlternatives ==
    << <<"c">>, <<"c","p","p">>, <<"c","c">>, <<"c","x","x">> >>

\* the alternatives that match at position p, as indexes into SourceAlternatives
AltsAt(line, p) == {n \in 1..Len(SourceAlternatives) : At(line, p, SourceAlternatives[n])}

\* \S+ matches line[i..d-1], "\." matches line[d], and some alternative follows
DotAt(line, i, d) ==
    /\ d > i
    /\ d <= Len(line)
    /\ line[d] = "."
    /\ \A k \in i..(d - 1) : ~IsWhite(line[k])
    /\ AltsAt(line, d + 1) # {}

MatchStarts(line) == {i \in 1..Len(line) : \E d \in 1..Len(line) : DotAt(line, i, d)}

Min(S) == CHOOSE x \in S : \A y \in S : x <= y
Max(S) == CHOOSE x \in S : \A y \in S : x >= y

source_file(line) ==
    IF MatchStarts(line) = {} THEN <<>>
    ELSE LET i == Min(MatchStarts(line))
             d == Max({e \in 1..Len(line) : DotAt(line, i, e)})
             n == Min(AltsAt(line, d + 1))
         IN  SubSeq(line, i, d + Len(SourceAlternatives[n]))

(***************************************************************************)
(* The reasons process_line prints for a line it does not accept           *)
(***************************************************************************)
NOISE_CMAKEFILES == <<"C","M","a","k","e","F","i","l","e","s">>
NOISE_MAKE == <<".","m","a","k","e">>
NOISE_TARGET == <<"t","a","r","g","e","t">>

\* the reasons with the " -o " test not negated
RejectReasons_OutputInverted(line) ==
       (IF ~Contains(line, FLAG_C) THEN {"MissingCompileFlag"} ELSE {})
  \cup (IF Contains(line, FLAG_O) THEN {"MissingOutputFlag"} ELSE {})
  \cup (IF ~contains_source_file(line) THEN {"MissingSourceExtension"} ELSE {})
  \cup (IF ~compiler_regex_is_match(line) THEN {"NotACompilerInvocation"} ELSE {})

RejectReasons(line) ==
       (IF ~Contains(line, FLAG_C) THEN {"MissingCompileFlag"} ELSE {})
  \cup (IF ~Contains(line, FLAG_O) THEN {"MissingOutputFlag"} ELSE {})
  \cup (IF ~(\/ Contains(line, EXT_C)
             \/ Contains(line, EXT_CPP)
             \/ Contains(line, EXT_CC)
             \/ Contains(line, EXT_CXX))
        THEN {"MissingSourceExtension"} ELSE {})
  \cup (IF \/ Contains(line, NOISE_CMAKEFILES)
           \/ Contains(line, NOISE_MAKE)
           \/ Contains(line, NOISE_TARGET)
        THEN {"LooksLikeBuildSystemNoise"} ELSE {})
  \cup (IF ~compiler_regex_is_match(line) THEN {"NotACompilerInvocation"} ELSE {})

(***************************************************************************)
(* CompileCommand and serde_json::to_string_pretty                         *)
(***************************************************************************)
\* std::env::current_dir(), the same for the whole run
Cwd == <<"/", "w">>

CompileCommand(line) ==
    [directory |-> Cwd, command |-> line, file |-> source_file(line)]

\* JSON string escaping of one character
EscapeChar(c) ==
    IF c = QUOTE THEN <<BSLASH, QUOTE>>
    ELSE IF c = BSLASH THEN <<BSLASH, BSLASH>>
    ELSE IF c = TAB THEN <<BSLASH, "t">>
    ELSE <<c>>

RECURSIVE Escape(_)
Escape(s) == IF s = <<>> THEN <<>> ELSE EscapeChar(Head(s)) \o Escape(Tail(s))

KEY_DIRECTORY == <<"d","i","r","e","c","t","o","r","y">>
KEY_COMMAND == <<"c","o","m","m","a","n","d">>
KEY_FILE == <<"f","i","l","e">>

\* one `  "key": "value"` line of the pretty printer
Member(key, value) ==
    <<" ", " ", QUOTE>> \o key \o <<QUOTE, ":", " ", QUOTE>> \o Escape(value) \o <<QUOTE>>

to_string_pretty(r) ==
    <<"{", NL>> \o Member(KEY_DIRECTORY, r.directory) \o <<",", NL>>
                \o Member(KEY_COMMAND, r.command) \o <<",", NL>>
                \o Member(KEY_FILE, r.file) \o <<NL, "}">>

\* the three literals main and process_line write
OPEN_DELIM == <<"[", NL>>
SEPARATOR == <<",", NL>>
\* the closing delimiter without its leading newline
CLOSE_DELIM_NoNewline == <<"]", NL>>
CLOSE_DELIM == <<NL, "]", NL>>

(***************************************************************************)
(* What the child process may write                                        *)
(***************************************************************************)
\* /cc -c -o a.c
LINE_A == <<"/","c","c"," ","-","c"," ","-","o"," ","a",".","c">>
\* /cc -c -o "b\.c"<TAB>x
LINE_B == <<"/","c","c"," ","-","c"," ","-","o"," ",QUOTE,"b",BSLASH,".","c",QUOTE,TAB,"x">>
\* make: x
LINE_C == <<"m","a","k","e",":"," ","x">>
\* bytes that are not UTF-8: next_line returns Err for them
INVALID_UTF8 == <<"?">>

StdoutLines == {LINE_A, LINE_B, LINE_C, INVALID_UTF8}
StderrLines == {<<"e">>, INVALID_UTF8}

(***************************************************************************)
(* main                                                                    *)
(***************************************************************************)
Init ==
    /\ pc = "create"
    /\ file = <<>>
    /\ first_entry = TRUE
    /\ stdout = <<>>
    /\ stderr = <<>>
    /\ child = "none"
    /\ pending = <<>>
    /\ nOut = 0
    /\ nErr = 0
    /\ seen = <<>>
    /\ outcome = <<>>
    /\ pushFailed = FALSE

\* File::create(output_path).await? and file.write_all(b"[\n").await?
Create ==
    /\ pc = "create"
    /\ \E created \in BOOLEAN, written \in BOOLEAN :
          IF created /\ written
          THEN pc' = "spawn" /\ file' = <<OPEN_DELIM>>
          ELSE pc' = "failed" /\ file' = <<>>
    /\ UNCHANGED <<first_entry, stdout, stderr, child, pending, nOut, nErr,
                   seen, outcome, pushFailed>>

\* Command::new(command)...spawn()?, then first_entry = true
Spawn ==
    /\ pc = "spawn"
    /\ \E spawned \in BOOLEAN :
          IF spawned
          THEN pc' = "read_out" /\ child' = "running"
          ELSE pc' = "failed" /\ child' = "none"
    /\ first_entry' = TRUE
    /\ UNCHANGED <<file, stdout, stderr, pending, nOut, nErr, seen, outcome, pushFailed>>

\* process_line(&line, &compiler_regex, &mut file, &mut first_entry)
process_line(line) ==
    IF is_compile_command(line)
    THEN \E sepOk \in BOOLEAN, jsonOk \in BOOLEAN :
            LET json == to_string_pretty(CompileCommand(line))
                sep == IF first_entry THEN <<>>
                       ELSE IF sepOk THEN <<SEPARATOR>> ELSE <<>>
                rec == IF jsonOk THEN <<json>> ELSE <<>>
            IN  /\ first_entry' = FALSE
                /\ file' = file \o sep \o rec
                /\ pushFailed' = (pushFailed \/ (~first_entry /\ ~sepOk) \/ ~jsonOk)
                /\ outcome' = << [line |-> line, accepted |-> TRUE,
                                  file |-> CompileCommand(line).file, reasons |-> {}] >>
    ELSE /\ outcome' = << [line |-> line, accepted |-> FALSE,
                           file |-> <<>>, reasons |-> RejectReasons(line)] >>
         /\ UNCHANGED <<first_entry, file, pushFailed>>

\* the body of `while let Some(line) = lines.next_line().await?`, for one stdout line
ReadOutLine ==
    /\ pc = "read_out"
    /\ stdout # <<>>
    /\ Head(stdout) # INVALID_UTF8
    /\ stdout' = Tail(stdout)
    /\ seen' = Append(seen, Head(stdout))
    /\ process_line(Head(stdout))
    /\ UNCHANGED <<pc, stderr, child, pending, nOut, nErr>>

\* lines.next_line().await? returns Err: main returns it
ReadOutErr ==
    /\ pc = "read_out"
    /\ stdout # <<>>
    /\ Head(stdout) = INVALID_UTF8
    /\ stdout' = Tail(stdout)
    /\ pc' = "failed"
    /\ UNCHANGED <<file, first_entry, stderr, child, pending, nOut, nErr,
                   seen, outcome, pushFailed>>

\* an empty pipe taken for the end of the stream
StdoutEof_PipeEmpty == stdout = <<>>

\* next_line returns None: every writer has closed the stdout pipe and it is drained
StdoutEof == stdout = <<>> /\ child = "exited"

ReadOutEof ==
    /\ pc = "read_out"
    /\ StdoutEof
    /\ pc' = "read_err"
    /\ UNCHANGED <<file, first_entry, stdout, stderr, child, pending, nOut, nErr,
                   seen, outcome, pushFailed>>

\* the stderr loop, entered only after the stdout loop has ended
ReadErrLine ==
    /\ pc = "read_err"
    /\ stderr # <<>>
    /\ stderr' = Tail(stderr)
    /\ pc' = IF Head(stderr) = INVALID_UTF8 THEN "failed" ELSE "read_err"
    /\ UNCHANGED <<file, first_entry, stdout, child, pending, nOut, nErr,
                   seen, outcome, pushFailed>>

ReadErrEof ==
    /\ pc = "read_err"
    /\ stderr = <<>>
    /\ child = "exited"
    /\ pc' = "close"
    /\ UNCHANGED <<file, first_entry, stdout, stderr, child, pending, nOut, nErr,
                   seen, outcome, pushFailed>>

\* file.write_all(b"\n]\n").await? and Ok(())
Close ==
    /\ pc = "close"
    /\ \E written \in BOOLEAN :
          IF written
          THEN pc' = "done" /\ file' = Append(file, CLOSE_DELIM)
          ELSE pc' = "failed" /\ file' = file
    /\ UNCHANGED <<first_entry, stdout, stderr, child, pending, nOut, nErr,
                   seen, outcome, pushFailed>>

(***************************************************************************)
(* The spawned command, writing to its two pipes                           *)
(***************************************************************************)
ChildBeginOut ==
    /\ child = "running"
    /\ nOut < MaxOut
    /\ \E l \in StdoutLines : pending' = l
    /\ child' = "wout"
    /\ nOut' = nOut + 1
    /\ UNCHANGED <<pc, file, first_entry, stdout, stderr, nErr, seen, outcome, pushFailed>>

\* the write returns once the pipe has room
ChildEndOut ==
    /\ child = "wout"
    /\ Len(stdout) < PipeCap
    /\ stdout' = Append(stdout, pending)
    /\ pending' = <<>>
    /\ child' = "running"
    /\ UNCHANGED <<pc, file, first_entry, stderr, nOut, nErr, seen, outcome, pushFailed>>

ChildBeginErr ==
    /\ child = "running"
    /\ nErr < MaxErr
    /\ \E l \in StderrLines : pending' = l
    /\ child' = "werr"
    /\ nErr' = nErr + 1
    /\ UNCHANGED <<pc, file, first_entry, stdout, stderr, nOut, seen, outcome, pushFailed>>

ChildEndErr ==
    /\ child = "werr"
    /\ Len(stderr) < PipeCap
    /\ stderr' = Append(stderr, pending)
    /\ pending' = <<>>
    /\ child' = "running"
    /\ UNCHANGED <<pc, file, first_entry, stdout, nOut, nErr, seen, outcome, pushFailed>>

ChildExit ==
    /\ child = "running"
    /\ child' = "exited"
    /\ UNCHANGED <<pc, file, first_entry, stdout, stderr, pending, nOut, nErr,
                   seen, outcome, pushFailed>>

Driver ==
    \/ Create
    \/ Spawn
    \/ ReadOutLine
    \/ ReadOutErr
    \/ ReadOutEof
    \/ ReadErrLine
    \/ ReadErrEof
    \/ Close

Child ==
    \/ ChildBeginOut
    \/ ChildEndOut
    \/ ChildBeginErr
    \/ ChildEndErr
    \/ ChildExit

Next == Driver \/ Child

Spec == Init /\ [][Next]_vars

\* the runtime keeps polling main, and the operating system keeps running the child
FairSpec == Spec /\ WF_vars(Driver) /\ WF_vars(Child)

(***************************************************************************)
(* Classification of one line: the run in which the child wrote a single   *)
(* line to stdout and exited, and main is about to read it.                *)
(***************************************************************************)
Fragments ==
    { <<"/","u","s","r">>, <<"/","g","c","c">>, <<"g","c","c">>,
      <<"/","c","l","a","n","g">>, <<"+","+">>, <<" ">>, <<TAB>>,
      <<" ","-","c">>, <<" ","-","o"," ">>, <<" ","-","c"," ","-","o"," ">>,
      <<"a",".","c">>,
      <<"b",".","c","p","p">>, <<".","o">>, NOISE_TARGET \o EXT_C }

RECURSIVE LinesOf(_)
\* the concatenations of exactly n fragments
LinesOf(n) ==
    IF n = 0 THEN {<<>>}
    ELSE {l \o f : l \in LinesOf(n - 1), f \in Fragments}

LineInputs == UNION {LinesOf(n) : n \in 1..MaxFrags}

InitClassify ==
    /\ pc = "read_out"
    /\ file = <<OPEN_DELIM>>
    /\ first_entry = TRUE
    /\ stdout \in {<<l>> : l \in LineInputs}
    /\ stderr = <<>>
    /\ child = "exited"
    /\ pending = <<>>
    /\ nOut = 1
    /\ nErr = 0
    /\ seen = <<>>
    /\ outcome = <<>>
    /\ pushFailed = FALSE

NextClassify == ReadOutLine

ClassifySpec == InitClassify /\ [][NextClassify]_vars

(***************************************************************************)
(* Vocabulary of the claims about classification                           *)
(***************************************************************************)
\* the line process_line handled last, and what it printed
Classified == outcome # <<>>
Last == outcome[1]

EndsWith(s, suf) ==
    Len(s) >= Len(suf) /\ SubSeq(s, Len(s) - Len(suf) + 1, Len(s)) = suf

\* <<i, j>>: line[i..j] is a maximal run without whitespace
TokenSpans(line) ==
    {sp \in (1..Len(line)) \X (1..Len(line)) :
        /\ sp[1] <= sp[2]
        /\ \A k \in sp[1]..sp[2] : ~IsWhite(line[k])
        /\ (sp[1] = 1 \/ IsWhite(line[sp[1] - 1]))
        /\ (sp[2] = Len(line) \/ IsWhite(line[sp[2] + 1]))}

Token(line, sp) == SubSeq(line, sp[1], sp[2])

NameSet == {CompilerNames[n] : n \in 1..Len(CompilerNames)}
ExtSet == {EXT_C, EXT_CPP, EXT_CC, EXT_CXX}

HasAllFlagsAndExt(line) ==
    /\ Contains(line, FLAG_C)
    /\ Contains(line, FLAG_O)
    /\ \E e \in ExtSet : Contains(line, e)

\* "an optional absolute path prefix (the prefix may be absent) immediately
\* followed by one of the names and then a space": with the prefix absent, a
\* name followed by a space
NameThenSpace(line) == \E b \in NameSet : Contains(line, b \o <<" ">>)

\* "/" immediately followed by one of the names and then a whitespace character
SlashNameThenWhite(line) ==
    \E b \in NameSet : \E w \in {" ", TAB} : Contains(line, <<"/">> \o b \o <<w>>)

\* C3 as stated: a line is accepted iff it contains " -c ", " -o ", a source
\* extension, and a compiler name (path prefix optional) followed by a space.
C3_AcceptIffStated ==
    Classified =>
        (Last.accepted <=> (HasAllFlagsAndExt(Last.line) /\ NameThenSpace(Last.line)))

\* C3 amended: a line is accepted iff it contains " -c ", " -o ", a source
\* extension, and "/" immediately followed by cc, c++, gcc, g++, clang or
\* clang++ and then a whitespace character; the denylist plays no part.
C3_AcceptIffSlashName ==
    Classified =>
        (Last.accepted <=> (HasAllFlagsAndExt(Last.line) /\ SlashNameThenWhite(Last.line)))

\* an accepted line that also contains a denylisted substring
C3_Witness ==
    Classified /\ Last.accepted /\ Contains(Last.line, NOISE_TARGET)

\* the source file as C4 describes it: the first run without spaces that ends
\* in a source extension and is followed by a space or the end of the line
StatedSourceFile(line) ==
    LET good == {sp \in TokenSpans(line) :
                    \E e \in ExtSet : EndsWith(Token(line, sp), e)
                                      /\ Len(Token(line, sp)) > Len(e)}
    IN  IF good = {} THEN <<>>
        ELSE Token(line, CHOOSE sp \in good : \A o \in good : sp[1] <= o[1])

\* C4 as stated: for every accepted line (taken here without tabs, so that
\* "space" is unambiguous) the file field is the first space-delimited run
\* ending in .c, .cpp, .cc or .cxx, and is empty when there is none.
C4_FileIsWholeToken ==
    (Classified /\ Last.accepted /\ ~Contains(Last.line, <<TAB>>)) =>
        Last.file = StatedSourceFile(Last.line)

\* a name occurs in the line, but no whitespace-delimited token ends in "/" name
FreeNameOnly(line) ==
    /\ \E b \in NameSet : Contains(line, b)
    /\ \A sp \in TokenSpans(line) : \A b \in NameSet :
          ~EndsWith(Token(line, sp), <<"/">> \o b)

\* C9: a line in which a compiler name occurs only as a free substring, never
\* as the last component of a path, is rejected with NotACompilerInvocation,
\* whatever flags and extensions it contains.
C9_FreeNameRejected ==
    (Classified /\ FreeNameOnly(Last.line)) =>
        (~Last.accepted /\ "NotACompilerInvocation" \in Last.reasons)

\* such a line that has " -c ", " -o " and a source extension, and was rejected
C9_Witness ==
    /\ Classified
    /\ FreeNameOnly(Last.line)
    /\ HasAllFlagsAndExt(Last.line)
    /\ ~Last.accepted

FourReasons ==
    {"MissingCompileFlag", "MissingOutputFlag", "MissingSourceExtension",
     "NotACompilerInvocation"}

\* C10: a rejected line carries MissingCompileFlag iff " -c " is absent,
\* MissingOutputFlag iff " -o " is absent, MissingSourceExtension iff no source
\* extension occurs, NotACompilerInvocation iff the compiler pattern does not
\* match; so it carries at least one of the four, and every line without
\* " -c " or " -o " is rejected with the corresponding reason.
C10_ReasonPerUnmetCondition ==
    Classified =>
        LET l == Last.line
            r == Last.reasons
        IN  /\ ~Last.accepted =>
                  /\ ("MissingCompileFlag" \in r) <=> ~Contains(l, FLAG_C)
                  /\ ("MissingOutputFlag" \in r) <=> ~Contains(l, FLAG_O)
                  /\ ("MissingSourceExtension" \in r) <=> ~(\E e \in ExtSet : Contains(l, e))
                  /\ ("NotACompilerInvocation" \in r) <=> ~SlashNameThenWhite(l)
                  /\ r \cap FourReasons # {}
            /\ ~Contains(l, FLAG_C) => (~Last.accepted /\ "MissingCompileFlag" \in r)
            /\ ~Contains(l, FLAG_O) => (~Last.accepted /\ "MissingOutputFlag" \in r)

\* a rejected line that names a compiler and has " -c " but no " -o "
C10_Witness ==
    /\ Classified
    /\ ~Last.accepted
    /\ "MissingOutputFlag" \in Last.reasons
    /\ "MissingCompileFlag" \notin Last.reasons
    /\ "NotACompilerInvocation" \notin Last.reasons

(***************************************************************************)
(* Reading compile_commands.json back: the bytes of the file, a JSON       *)
(* tokenizer, and a parser of an array of objects with string members.     *)
(***************************************************************************)
RECURSIVE Concat(_)
Concat(chunks) == IF chunks = <<>> THEN <<>> ELSE Head(chunks) \o Concat(Tail(chunks))

\* the bytes of the destination file
Content == Concat(file)

RECURSIVE StringEnd(_, _)
\* position of the quote closing the string whose first character is s[i]; 0 if none
StringEnd(s, i) ==
    IF i > Len(s) THEN 0
    ELSE IF s[i] = BSLASH THEN StringEnd(s, i + 2)
    ELSE IF s[i] = QUOTE THEN i
    ELSE StringEnd(s, i + 1)

RECURSIVE Unescape(_)
Unescape(s) ==
    IF s = <<>> THEN <<>>
    ELSE IF Head(s) = BSLASH /\ Len(s) >= 2
         THEN (IF s[2] = "t" THEN <<TAB>>
               ELSE IF s[2] = "n" THEN <<NL>>
               ELSE <<s[2]>>) \o Unescape(Tail(Tail(s)))
         ELSE <<Head(s)>> \o Unescape(Tail(s))

Punct == {"[", "]", "{", "}", ",", ":"}

RECURSIVE Lex(_, _)
\* the JSON tokens of s from position i; a token "bad" ends the list at the first error
Lex(s, i) ==
    IF i > Len(s) THEN <<>>
    ELSE IF s[i] \in {" ", NL, TAB} THEN Lex(s, i + 1)
    ELSE IF s[i] \in Punct THEN <<[t |-> s[i], v |-> <<>>]>> \o Lex(s, i + 1)
    ELSE IF s[i] = QUOTE /\ StringEnd(s, i + 1) # 0
         THEN <<[t |-> "str", v |-> Unescape(SubSeq(s, i + 1, StringEnd(s, i + 1) - 1))]>>
              \o Lex(s, StringEnd(s, i + 1) + 1)
    ELSE <<[t |-> "bad", v |-> <<>>]>>

\* toks[a..b] is  str : str (, str : str)*
IsMembers(toks, a, b) ==
    /\ (b - a + 1) % 4 = 3
    /\ \A k \in a..b :
          toks[k].t = (CASE (k - a) % 4 = 0 -> "str"
                         [] (k - a) % 4 = 1 -> ":"
                         [] (k - a) % 4 = 2 -> "str"
                         [] OTHER -> ",")

\* the members of toks[a..b] as a set of <<key, value>>
MembersOf(toks, a, b) ==
    {<<toks[k].v, toks[k + 2].v>> : k \in {j \in a..b : (j - a) % 4 = 0}}

RECURSIVE ElemsFrom(_, _, _)
\* toks[a..b] is  object (, object)*
ElemsFrom(toks, a, b) ==
    LET ends == {e \in a..b : toks[e].t = "}"}
        e == Min(ends)
    IN  IF a > b \/ toks[a].t # "{" \/ ends = {} THEN [ok |-> FALSE, elems |-> <<>>]
        ELSE IF ~IsMembers(toks, a + 1, e - 1) THEN [ok |-> FALSE, elems |-> <<>>]
        ELSE IF e = b THEN [ok |-> TRUE, elems |-> <<MembersOf(toks, a + 1, e - 1)>>]
        ELSE IF toks[e + 1].t # "," THEN [ok |-> FALSE, elems |-> <<>>]
        ELSE LET rest == ElemsFrom(toks, e + 2, b)
             IN  [ok |-> rest.ok,
                  elems |-> <<MembersOf(toks, a + 1, e - 1)>> \o rest.elems]

\* the elements of the JSON array s, when s is one
ParseArray(s) ==
    LET toks == Lex(s, 1)
        n == Len(toks)
    IN  IF n < 2 \/ toks[1].t # "[" \/ toks[n].t # "]" THEN [ok |-> FALSE, elems |-> <<>>]
        ELSE IF n = 2 THEN [ok |-> TRUE, elems |-> <<>>]
        ELSE ElemsFrom(toks, 2, n - 1)

\* a CompileCommand as the parser returns it
AsMembers(r) ==
    {<<KEY_DIRECTORY, r.directory>>, <<KEY_COMMAND, r.command>>, <<KEY_FILE, r.file>>}

(***************************************************************************)
(* Claims about a whole run                                                *)
(***************************************************************************)
\* the stdout lines read so far that the classifier accepts, in order
Accepted == SelectSeq(seen, is_compile_command)

\* C1: when a run ends normally, the file is a JSON array whose elements are,
\* in order, exactly the records of the accepted lines: one per accepted line,
\* and the command of the i-th element is the i-th accepted line.
C1_ArrayIsAcceptedLines ==
    pc = "done" =>
        LET p == ParseArray(Content) IN
        /\ p.ok
        /\ Len(p.elems) = Len(Accepted)
        /\ \A i \in 1..Len(Accepted) : p.elems[i] = AsMembers(CompileCommand(Accepted[i]))

\* the JSON tokens of the file, as a sequence of token kinds
Kinds == [k \in 1..Len(Lex(Content, 1)) |-> Lex(Content, 1)[k].t]

\* a comma of the array, not one between the members of an object
IsSeparator(k) ==
    /\ Kinds[k] = ","
    /\ Cardinality({j \in 1..k : Kinds[j] = "{"}) = Cardinality({j \in 1..k : Kinds[j] = "}"})

\* C2: whatever pushes failed, the file never holds a comma directly after the
\* opening delimiter, two separators in a row, or a comma directly before the
\* closing delimiter; and with exactly one record pushed it holds no separator.
C2_NoStrayComma ==
    /\ \A k \in 1..(Len(Kinds) - 1) :
          /\ ~(Kinds[k] = "[" /\ IsSeparator(k + 1))
          /\ ~(IsSeparator(k) /\ IsSeparator(k + 1))
          /\ ~(IsSeparator(k) /\ Kinds[k + 1] = "]")
    /\ Len(Accepted) = 1 => \A k \in 1..Len(Kinds) : ~IsSeparator(k)

\* C5: once the write of a separator or a record has failed, no further line
\* is classified, nothing more is written, and the run does not end with Ok.
C5_FailedWriteStopsRun ==
    [][pushFailed => (seen' = seen /\ file' = file /\ pc' # "done")]_vars

\* C6: the child writes finitely many lines and exits; unless an I/O call
\* fails, main reads stdout to its end and writes the closing delimiter.
C6_EventuallyClosed == <>(pc = "done" \/ pc = "failed")

\* C7: a run that ends normally without an accepted line leaves exactly
\* "[\n\n]\n" in the file.
C7_EmptyArray ==
    (pc = "done" /\ Accepted = <<>>) => Content = <<"[", NL, NL, "]", NL>>

\* a finished run that read lines and accepted none
C7_Witness == pc = "done" /\ Accepted = <<>> /\ Len(seen) >= 2

\* C8: the opening delimiter is written once, first (it is missing only from
\* a run that File::create or the opening write aborted, which spawns and
\* reads nothing); the closing delimiter is written at most once, last, and
\* only when the child has exited and its stdout is drained; nothing is
\* written after it.
C8_DelimitersInOrder ==
    /\ (pc # "create" /\ file = <<>>) => (pc = "failed" /\ child = "none" /\ seen = <<>>)
    /\ file # <<>> => file[1] = OPEN_DELIM
    /\ \A i \in 2..Len(file) : file[i] # OPEN_DELIM
    /\ \A i \in 1..Len(file) :
          file[i] = CLOSE_DELIM =>
              /\ i = Len(file)
              /\ i > 1
              /\ pc = "done"
              /\ stdout = <<>>
              /\ child = "exited"

\* a closed file that holds two records
C8_Witness ==
    /\ pc = "done"
    /\ Len(file) = 5
    /\ file[5] = CLOSE_DELIM

=============================================================================
